---- MODULE Spec2Model ----
(***************************************************************************)
(* Model of dependency_analyzer.py: the call graph built from the parsed   *)
(* Java methods, its inverse, the localisation of changed methods by line  *)
(* span, the propagation of impact through the inverse graph and the       *)
(* token-based selection of test cases.                                    *)
(*                                                                         *)
(* Each function of the program is modelled by its own group of variables  *)
(* and its own specification; the variables of the other groups stay at    *)
(* their initial values.                                                   *)
(***************************************************************************)
EXTENDS Integers, Sequences, FiniteSets, TLC

(***************************************************************************)
(* Universe of method names and bounds of the model.                       *)
(***************************************************************************)
Names == {"a", "b", "c"}

NameOrder == <<"a", "b", "c">>

\* the names of the methods declared in the source tree; "c" is only called
DeclNames == {"a", "b"}

MaxMethods == 2

MaxCallers == 2

MaxFiles == 2

MaxDecls == 2

MaxLines == 4

MaxLineLen == 2

MaxHunk == 2

MaxTestMethods == 2

MaxCatalog == 2

VARIABLES
    methods,      \* find_dependents: the list of changed methods passed in
    inv_graph,    \* find_dependents: the inverse graph passed in
    stack,        \* find_dependents: the work stack
    visited,      \* find_dependents: the visited set, which is the result
    dpc,          \* find_dependents: "loop" while running, "done" after return
    pushes,       \* number of stack.append(parent) calls per method in this run
    run,          \* 1 in the first call, 2 in the repeated call
    prev,         \* the set returned by the first call
    graph,        \* build_dependency_graph: caller -> list of callees
    graphKeys,    \* the keys of graph in insertion order (dict order)
    inv,          \* the result of inverse_graph(graph)
    gpc,          \* "walk" between files, "file" inside one, "built", "inverted", "aborted"
    nfiles,       \* files yielded by find_java_files so far
    ndecls,       \* methods of the current file handled so far
    parsed,       \* every (declaration name, call target) pair parsed so far
    code,            \* find_changed_methods_from_git: the lines of the current file
    changed_lines,   \* the changed line numbers of the current file
    decl_name,       \* node.name of the declaration examined last
    start_line,      \* node.position.line of that declaration
    end_line,        \* find_method_end_line(code, start_line)
    changed_methods, \* the set of changed method names collected so far
    spanned,         \* names of the declarations with a changed line inside their body span
    cpc,             \* "files" at the file loop, "decls" inside a file, "done", "aborted"
    cfiles,          \* entries of file_changes handled so far
    cdecls,          \* declarations of the current file handled so far
    tmethods,           \* find_testcases: the method names passed in
    testcases,          \* find_testcases: the catalog passed in
    norm_method_tokens, \* the set of lower-cased tokens
    matched,            \* the list of matched records
    tidx,               \* records of the catalog examined so far
    tpc                 \* "tokenize", "match", "done"

depVars == <<methods, inv_graph, stack, visited, dpc, pushes, run, prev>>

graphVars == <<graph, graphKeys, inv, gpc, nfiles, ndecls, parsed>>

chgVars == <<code, changed_lines, decl_name, start_line, end_line, changed_methods,
             spanned, cpc, cfiles, cdecls>>

tstVars == <<tmethods, testcases, norm_method_tokens, matched, tidx, tpc>>

vars == <<depVars, graphVars, chgVars, tstVars>>

(***************************************************************************)
(* Helpers on sequences.                                                   *)
(***************************************************************************)
Range(s) == {s[i] : i \in 1..Len(s)}

\* all duplicate-free sequences over S of length at most n
DistinctSeqs(S, n) ==
    UNION {{s \in [1..k -> S] : \A i, j \in 1..k : i # j => s[i] # s[j]} : k \in 0..n}

\* s listed in the fixed order NameOrder
Canonical(S) == SelectSeq(NameOrder, LAMBDA x : x \in S)

(***************************************************************************)
(* find_dependents                                                         *)
(***************************************************************************)
\* inv_graph.get(current, [])
Get(g, k) == IF k \in DOMAIN g THEN g[k] ELSE <<>>

\* stack.pop(): the element taken and the stack left
Top(stk) == stk[Len(stk)]

\* a stack that is read at its end and not shortened
PopKeepsElement(stk) == stk

AfterPop(stk) == SubSeq(stk, 1, Len(stk) - 1)

\* the loop over the callers with visited.add but no stack.append
RECURSIVE VisitParentsNoPush(_, _, _)
VisitParentsNoPush(parents, vis, stk) ==
    IF parents = <<>> THEN [visited |-> vis, stack |-> stk]
    ELSE VisitParentsNoPush(Tail(parents), vis \cup {Head(parents)}, stk)

\* the loop over the callers left at the first caller not yet visited
RECURSIVE VisitParentsBreak(_, _, _)
VisitParentsBreak(parents, vis, stk) ==
    IF parents = <<>> THEN [visited |-> vis, stack |-> stk]
    ELSE IF Head(parents) \notin vis
         THEN [visited |-> vis \cup {Head(parents)}, stack |-> Append(stk, Head(parents))]
         ELSE VisitParentsBreak(Tail(parents), vis, stk)

\* lines 148-151: the for loop over the callers of the popped node
RECURSIVE VisitParents(_, _, _)
VisitParents(parents, vis, stk) ==
    IF parents = <<>> THEN [visited |-> vis, stack |-> stk]
    ELSE IF Head(parents) \notin vis
         THEN VisitParents(Tail(parents), vis \cup {Head(parents)}, Append(stk, Head(parents)))
         ELSE VisitParents(Tail(parents), vis, stk)

\* one iteration of "while stack:" as a function of (visited, stack)
Iterate(g, vis, stk) == VisitParents(Get(g, Top(stk)), vis, AfterPop(stk))

\* the whole call as a function; fuel bounds the recursion of the definition
RECURSIVE RunLoop(_, _, _, _)
RunLoop(g, vis, stk, fuel) ==
    IF stk = <<>> \/ fuel = 0 THEN vis
    ELSE LET r == Iterate(g, vis, stk) IN RunLoop(g, r.visited, r.stack, fuel - 1)

FindDependents(ms, g) == RunLoop(g, {}, ms, Len(ms) + Cardinality(Names) + 1)

\* the inverse graphs inverse_graph can return over Names: a key exists only
\* with at least one caller, and no caller is listed twice
CallerLists == DistinctSeqs(Names, MaxCallers) \ {<<>>}

InvGraphs == UNION {[D -> CallerLists] : D \in SUBSET Names}

\* the lists list(changed_methods) can be: a set in some order
MethodLists == DistinctSeqs(Names, MaxMethods)

NoPushes == [m \in Names |-> 0]

\* the variables of build_dependency_graph and inverse_graph before they run
IdleGraph ==
    /\ graph = <<>>
    /\ graphKeys = <<>>
    /\ inv = <<>>
    /\ gpc = "idle"
    /\ nfiles = 0
    /\ ndecls = 0
    /\ parsed = {}

\* the variables of find_changed_methods_from_git before it runs
IdleChanged ==
    /\ code = <<>>
    /\ changed_lines = {}
    /\ decl_name = ""
    /\ start_line = 0
    /\ end_line = 0
    /\ changed_methods = {}
    /\ spanned = {}
    /\ cpc = "idle"
    /\ cfiles = 0
    /\ cdecls = 0

\* the variables of find_testcases before it runs
IdleTests ==
    /\ tmethods = {}
    /\ testcases = <<>>
    /\ norm_method_tokens = {}
    /\ matched = <<>>
    /\ tidx = 0
    /\ tpc = "idle"

InitDep ==
    /\ methods \in MethodLists
    /\ inv_graph \in InvGraphs
    /\ stack = methods
    /\ visited = {}
    /\ dpc = "loop"
    /\ pushes = NoPushes
    /\ run = 1
    /\ prev = {}
    /\ IdleGraph
    /\ IdleChanged
    /\ IdleTests

\* lines 146-151: pop a node and visit its callers
Step ==
    /\ dpc = "loop"
    /\ stack # <<>>
    /\ LET r == Iterate(inv_graph, visited, stack)
           kept == Len(AfterPop(stack))
           added == SubSeq(r.stack, kept + 1, Len(r.stack))
       IN /\ visited' = r.visited
          /\ stack' = r.stack
          /\ pushes' = [m \in Names |->
                          pushes[m] + Cardinality({i \in 1..Len(added) : added[i] = m})]
    /\ UNCHANGED <<methods, inv_graph, dpc, run, prev, graphVars, chgVars, tstVars>>

\* lines 146, 152: the stack is empty, return visited
Return ==
    /\ dpc = "loop"
    /\ stack = <<>>
    /\ dpc' = "done"
    /\ UNCHANGED <<methods, inv_graph, stack, visited, pushes, run, prev, graphVars, chgVars, tstVars>>

\* the caller calls find_dependents(methods, inv_graph) once more
CallAgain ==
    /\ dpc = "done"
    /\ run = 1
    /\ run' = 2
    /\ prev' = visited
    /\ stack' = methods
    /\ visited' = {}
    /\ pushes' = NoPushes
    /\ dpc' = "loop"
    /\ UNCHANGED <<methods, inv_graph, graphVars, chgVars, tstVars>>

NextDep == Step \/ Return

SpecDep == InitDep /\ [][NextDep]_vars

\* the interpreter runs the loop to its end: every enabled step is taken
FairDep == InitDep /\ [][NextDep]_vars /\ WF_vars(Step) /\ WF_vars(Return)

NextDepTwice == Step \/ Return \/ CallAgain

SpecDepTwice == InitDep /\ [][NextDepTwice]_vars

(***************************************************************************)
(* Properties of find_dependents                                           *)
(***************************************************************************)
\* m calls n in the call graph whose inverse is g
Calls(g, m, n) == n \in DOMAIN g /\ m \in Range(g[n])

\* directed paths of "calls" edges with at least one edge
Paths(g) ==
    {p \in UNION {[1..k -> Names] : k \in 2..(Cardinality(Names) + 1)} :
        \A i \in 1..(Len(p) - 1) : Calls(g, p[i], p[i + 1])}

Ancestors(ms, g) == {p[1] : p \in {q \in Paths(g) : q[Len(q)] \in Range(ms)}}

\* C1: the set returned is exactly the set of methods with a path of at least
\* one "calls" edge to a changed method
DepClosure == dpc = "done" => visited = Ancestors(methods, inv_graph)

DepClosureWitness ==
    /\ dpc = "done"
    /\ \E m \in visited : \A n \in Range(methods) : ~Calls(inv_graph, m, n)

\* C2: the set returned is disjoint from the changed methods
DepDisjoint == dpc = "done" => visited \cap Range(methods) = {}

\* C3: the call returns, and no method is pushed twice after the roots
DepTerminates ==
    /\ <>(dpc = "done")
    /\ [](\A m \in Names : pushes[m] <= 1)

DepTerminatesWitness ==
    /\ dpc = "done"
    /\ \E m \in Range(methods) : m \notin DOMAIN inv_graph
    /\ \E m \in Names : pushes[m] = 1 /\ Calls(inv_graph, m, m)

\* C4: the set returned is the one computed from the same sets listed in the
\* fixed order, a repeated call returns the same set, and the inputs stay as given
CanonicalInv(g) == [k \in DOMAIN g |-> Canonical(Range(g[k]))]

DepOrderFree ==
    /\ [](dpc = "done" =>
            /\ visited = FindDependents(Canonical(Range(methods)), CanonicalInv(inv_graph))
            /\ run = 2 => visited = prev)
    /\ [][methods' = methods /\ inv_graph' = inv_graph]_vars

DepOrderFreeWitness ==
    /\ dpc = "done"
    /\ run = 2
    /\ methods # Canonical(Range(methods))
    /\ \E k \in DOMAIN inv_graph : inv_graph[k] # Canonical(Range(inv_graph[k]))
    /\ Cardinality(visited) >= 2

(***************************************************************************)
(* build_dependency_graph and inverse_graph                                *)
(*                                                                         *)
(* find_java_files yields the files one by one.  A file either cannot be   *)
(* decoded by f.read(), or is rejected by javalang.parse.parse, or yields  *)
(* its method declarations, each with the set of the members of the        *)
(* MethodInvocation nodes below it.                                        *)
(***************************************************************************)
IdleDep ==
    /\ methods = <<>>
    /\ inv_graph = <<>>
    /\ stack = <<>>
    /\ visited = {}
    /\ dpc = "idle"
    /\ pushes = NoPushes
    /\ run = 1
    /\ prev = {}

\* list(callees): the elements of the set in some order
Orderings(S) == {s \in DistinctSeqs(S, Cardinality(S)) : Len(s) = Cardinality(S)}

\* graph[caller] = list(callees)
SetEntry(g, caller, lst) ==
    [k \in DOMAIN g \cup {caller} |-> IF k = caller THEN lst ELSE g[k]]

\* inv[callee] = [caller] in place of the append
AddCallerOverwrite(i, callee, caller) ==
    [k \in DOMAIN i \cup {callee} |-> IF k = callee THEN <<caller>> ELSE i[k]]

\* inv.setdefault(callee, []).append(caller)
AddCaller(i, callee, caller) ==
    [k \in DOMAIN i \cup {callee} |-> IF k = callee THEN Append(Get(i, callee), caller) ELSE i[k]]

\* for callee in callees
RECURSIVE InvertCallees(_, _, _)
InvertCallees(i, caller, callees) ==
    IF callees = <<>> THEN i
    ELSE InvertCallees(AddCaller(i, Head(callees), caller), caller, Tail(callees))

\* for caller, callees in graph.items()
RECURSIVE InvertItems(_, _, _)
InvertItems(i, g, keys) ==
    IF keys = <<>> THEN i
    ELSE InvertItems(InvertCallees(i, Head(keys), g[Head(keys)]), g, Tail(keys))

InverseGraph(g, keys) == InvertItems(<<>>, g, keys)

InitGraph ==
    /\ graph = <<>>
    /\ graphKeys = <<>>
    /\ inv = <<>>
    /\ gpc = "walk"
    /\ nfiles = 0
    /\ ndecls = 0
    /\ parsed = {}
    /\ IdleDep
    /\ IdleChanged
    /\ IdleTests

\* lines 57-61: the next file is read and parsed
OpenFile ==
    /\ gpc = "walk"
    /\ nfiles < MaxFiles
    /\ gpc' = "file"
    /\ nfiles' = nfiles + 1
    /\ ndecls' = 0
    /\ UNCHANGED <<graph, graphKeys, inv, parsed, depVars, chgVars, tstVars>>

\* lines 60-63: javalang rejects the file, parse_methods returns []
SyntaxError ==
    /\ gpc = "walk"
    /\ nfiles < MaxFiles
    /\ nfiles' = nfiles + 1
    /\ UNCHANGED <<graph, graphKeys, inv, gpc, ndecls, parsed, depVars, chgVars, tstVars>>

\* lines 57-58: f.read() raises outside the try, nothing catches it
ReadError ==
    /\ gpc = "walk"
    /\ nfiles < MaxFiles
    /\ gpc' = "aborted"
    /\ nfiles' = nfiles + 1
    /\ UNCHANGED <<graph, graphKeys, inv, ndecls, parsed, depVars, chgVars, tstVars>>

\* lines 73-78: one method declaration of the current file
AddMethod ==
    /\ gpc = "file"
    /\ ndecls < MaxDecls
    /\ \E caller \in DeclNames, callees \in SUBSET Names :
         \E lst \in Orderings(callees) :
            /\ graph' = SetEntry(graph, caller, lst)
            /\ graphKeys' = IF caller \in DOMAIN graph THEN graphKeys
                            ELSE Append(graphKeys, caller)
            /\ parsed' = parsed \cup {<<caller, c>> : c \in callees}
    /\ ndecls' = ndecls + 1
    /\ UNCHANGED <<inv, gpc, nfiles, depVars, chgVars, tstVars>>

\* line 73: the methods of the file are exhausted
EndFile ==
    /\ gpc = "file"
    /\ gpc' = "walk"
    /\ UNCHANGED <<graph, graphKeys, inv, nfiles, ndecls, parsed, depVars, chgVars, tstVars>>

\* lines 72, 79: the files are exhausted, the graph is returned
EndWalk ==
    /\ gpc = "walk"
    /\ gpc' = "built"
    /\ UNCHANGED <<graph, graphKeys, inv, nfiles, ndecls, parsed, depVars, chgVars, tstVars>>

\* line 204: inv_graph = inverse_graph(dep_graph)
Invert ==
    /\ gpc = "built"
    /\ inv' = InverseGraph(graph, graphKeys)
    /\ gpc' = "inverted"
    /\ UNCHANGED <<graph, graphKeys, nfiles, ndecls, parsed, depVars, chgVars, tstVars>>

NextGraph ==
    \/ OpenFile
    \/ SyntaxError
    \/ ReadError
    \/ AddMethod
    \/ EndFile
    \/ EndWalk
    \/ Invert

SpecGraph == InitGraph /\ [][NextGraph]_vars

(***************************************************************************)
(* Properties of build_dependency_graph and inverse_graph                  *)
(***************************************************************************)
InGraph(a, b) == a \in DOMAIN graph /\ b \in Range(graph[a])

InInv(b, a) == b \in DOMAIN inv /\ a \in Range(inv[b])

NoRepeat(s) == \A i, j \in 1..Len(s) : i # j => s[i] # s[j]

\* C5: b is in graph[a] iff a is in inv[b], and no caller is listed twice
InverseDuality ==
    gpc = "inverted" =>
        /\ \A a, b \in Names : InGraph(a, b) <=> InInv(b, a)
        /\ \A b \in DOMAIN inv : NoRepeat(inv[b])

InverseDualityWitness ==
    /\ gpc = "inverted"
    /\ \E b \in DOMAIN inv : Len(inv[b]) >= 2
    /\ \E a \in DOMAIN graph : Len(graph[a]) >= 2
    /\ \E b \in Names : b \notin DOMAIN inv

\* C8: a file that cannot be read or parsed never aborts the run, neither in
\* build_dependency_graph nor in find_changed_methods_from_git
NeverAborts == gpc # "aborted" /\ cpc # "aborted"

\* C9: every call target of every parsed declaration is in graph[name]
AllCallsInGraph ==
    gpc \in {"built", "inverted"} => \A e \in parsed : InGraph(e[1], e[2])

(***************************************************************************)
(* find_method_end_line and find_changed_methods_from_git                  *)
(*                                                                         *)
(* A line of a file is modelled by the braces it holds, in order: the scan *)
(* of find_method_end_line reacts to no other character.  The files are    *)
(* those javalang parses: the braces are balanced, a declaration lies      *)
(* inside a class body and has a body of its own, which opens with the     *)
(* first brace at or after the start of its line.                          *)
(***************************************************************************)
BraceChars == {"{", "}"}

LineTexts == UNION {[1..k -> BraceChars] : k \in 0..MaxLineLen}

\* for c in line: the brace count after the line
RECURSIVE CountLine(_, _)
CountLine(line, brace_count) ==
    IF line = <<>> THEN brace_count
    ELSE CountLine(Tail(line),
                   IF Head(line) = "{" THEN brace_count + 1
                   ELSE IF Head(line) = "}" THEN brace_count - 1
                   ELSE brace_count)

\* the test that ends the scan at line index i (line 97)
EndsHere(brace_count, i) == brace_count <= 0 /\ i > 0

\* for i, line in enumerate(lines)
RECURSIVE ScanLines(_, _, _, _)
ScanLines(lines, i, brace_count, start) ==
    IF i >= Len(lines) THEN start + Len(lines)
    ELSE LET bc == CountLine(lines[i + 1], brace_count)
         IN IF EndsHere(bc, i) THEN start + i
            ELSE ScanLines(lines, i + 1, bc, start)

\* find_method_end_line(code, start_line), code already split at "\n"
FindMethodEndLine(c, start) == ScanLines(SubSeq(c, start, Len(c)), 0, 0, start)

\* the braces of lines first..last of c as one sequence of <<line number, brace>>
RECURSIVE Flatten(_, _, _)
Flatten(c, first, last) ==
    IF first > last THEN <<>>
    ELSE [i \in 1..Len(c[first]) |-> <<first, c[first][i]>>] \o Flatten(c, first + 1, last)

\* the brace count after the first n braces of the flattened sequence s
RECURSIVE Balance(_, _)
Balance(s, n) ==
    IF n = 0 THEN 0
    ELSE Balance(s, n - 1) + (IF s[n][2] = "{" THEN 1 ELSE -1)

\* the line on which the count, taken brace by brace from the start of line
\* start, first returns to zero after having been positive; the last line of
\* the file when it never does
ClosingLine(c, start) ==
    LET s == Flatten(c, start, Len(c))
        closes == {n \in 1..Len(s) : Balance(s, n) = 0 /\ \E k \in 1..n : Balance(s, k) > 0}
    IN IF closes = {} THEN Len(c)
       ELSE s[CHOOSE n \in closes : \A k \in closes : n <= k][1]

\* javalang parses the file: the braces never close more than was opened and
\* all are closed at the end
Balanced(c) ==
    LET s == Flatten(c, 1, Len(c))
    IN /\ \A n \in 1..Len(s) : Balance(s, n) >= 0
       /\ Balance(s, Len(s)) = 0

Codes == {c \in UNION {[1..k -> LineTexts] : k \in 1..MaxLines} : Balanced(c)}

\* a method declaration with a body can start at line l of c
DeclarationAt(c, l) ==
    LET before == Flatten(c, 1, l - 1)
        after == Flatten(c, l, Len(c))
    IN /\ l \in 1..Len(c)
       /\ Balance(before, Len(before)) >= 1
       /\ after # <<>>
       /\ after[1][2] = "{"

\* lines 119-122: the lines of a hunk "+start,count"
HunkLines(start, count) == start..(start + count - 1)

\* line 139
Overlaps(first, last, lines) == \E l \in lines : first <= l /\ l <= last

InitChanged ==
    /\ code = <<>>
    /\ changed_lines = {}
    /\ decl_name = ""
    /\ start_line = 0
    /\ end_line = 0
    /\ changed_methods = {}
    /\ spanned = {}
    /\ cpc = "files"
    /\ cfiles = 0
    /\ cdecls = 0
    /\ IdleDep
    /\ IdleGraph
    /\ IdleTests

\* line 128: the file of the diff is not in the working tree
MissingFile ==
    /\ cpc = "files"
    /\ cfiles < MaxFiles
    /\ cfiles' = cfiles + 1
    /\ UNCHANGED <<code, changed_lines, decl_name, start_line, end_line, changed_methods,
                   spanned, cpc, cdecls, depVars, graphVars, tstVars>>

\* lines 129-130: f.read() raises outside the try, nothing catches it
ChangedReadError ==
    /\ cpc = "files"
    /\ cfiles < MaxFiles
    /\ cfiles' = cfiles + 1
    /\ cpc' = "aborted"
    /\ UNCHANGED <<code, changed_lines, decl_name, start_line, end_line, changed_methods,
                   spanned, cdecls, depVars, graphVars, tstVars>>

\* lines 131-134: javalang rejects the file
ChangedSyntaxError ==
    /\ cpc = "files"
    /\ cfiles < MaxFiles
    /\ cfiles' = cfiles + 1
    /\ UNCHANGED <<code, changed_lines, decl_name, start_line, end_line, changed_methods,
                   spanned, cpc, cdecls, depVars, graphVars, tstVars>>

\* lines 126-132: the file is read and parsed
ChangedOpenFile ==
    /\ cpc = "files"
    /\ cfiles < MaxFiles
    /\ \E c \in Codes, first \in 1..MaxLines, count \in 0..MaxHunk :
          /\ first + count - 1 <= Len(c)
          /\ code' = c
          /\ changed_lines' = HunkLines(first, count)
    /\ cfiles' = cfiles + 1
    /\ cdecls' = 0
    /\ cpc' = "decls"
    /\ UNCHANGED <<decl_name, start_line, end_line, changed_methods, spanned,
                   depVars, graphVars, tstVars>>

\* lines 135-140: one method declaration of the current file
CheckMethod ==
    /\ cpc = "decls"
    /\ cdecls < MaxDecls
    /\ \E name \in DeclNames, l \in 1..Len(code) :
          /\ DeclarationAt(code, l)
          /\ decl_name' = name
          /\ start_line' = l
          /\ end_line' = FindMethodEndLine(code, l)
          /\ changed_methods' =
                IF Overlaps(l, FindMethodEndLine(code, l), changed_lines)
                THEN changed_methods \cup {name} ELSE changed_methods
          /\ spanned' =
                IF Overlaps(l, ClosingLine(code, l), changed_lines)
                THEN spanned \cup {name} ELSE spanned
    /\ cdecls' = cdecls + 1
    /\ UNCHANGED <<code, changed_lines, cpc, cfiles, depVars, graphVars, tstVars>>

\* line 135: the declarations of the file are exhausted; the loop variables
\* are bound anew by the next iteration and read by nothing before that
ChangedEndFile ==
    /\ cpc = "decls"
    /\ cpc' = "files"
    /\ code' = <<>>
    /\ changed_lines' = {}
    /\ decl_name' = ""
    /\ start_line' = 0
    /\ end_line' = 0
    /\ cdecls' = 0
    /\ UNCHANGED <<changed_methods, spanned, cfiles, depVars, graphVars, tstVars>>

\* lines 126, 141: the files are exhausted, the names are returned
ChangedReturn ==
    /\ cpc = "files"
    /\ cpc' = "done"
    /\ UNCHANGED <<code, changed_lines, decl_name, start_line, end_line, changed_methods,
                   spanned, cfiles, cdecls, depVars, graphVars, tstVars>>

NextChanged ==
    \/ MissingFile
    \/ ChangedReadError
    \/ ChangedSyntaxError
    \/ ChangedOpenFile
    \/ CheckMethod
    \/ ChangedEndFile
    \/ ChangedReturn

SpecChanged == InitChanged /\ [][NextChanged]_vars

(***************************************************************************)
(* Properties of find_method_end_line and find_changed_methods_from_git    *)
(***************************************************************************)
\* C6: a name is returned iff a declaration of that name has a changed line
\* inside the lines it spans, from its first line to its closing brace
ChangedIffSpanned == cpc = "done" => changed_methods = spanned

\* C10: the end line is the first line at which the brace count returns to
\* zero after having been positive, or the last line of the file
EndLineIsClosingLine == cdecls > 0 => end_line = ClosingLine(code, start_line)

(***************************************************************************)
(* split_camel_case and find_testcases                                     *)
(*                                                                         *)
(* A string is a sequence of one-character strings.                        *)
(***************************************************************************)
UpperChars == <<"A", "B", "C", "D", "E", "F", "G", "H", "I", "J", "K", "L", "M", "N", "O", "P", "Q", "R", "S", "T", "U", "V", "W", "X", "Y", "Z">>

LowerChars == <<"a", "b", "c", "d", "e", "f", "g", "h", "i", "j", "k", "l", "m", "n", "o", "p", "q", "r", "s", "t", "u", "v", "w", "x", "y", "z">>

IsUpper(c) == \E i \in 1..Len(UpperChars) : UpperChars[i] = c

IsLower(c) == \E i \in 1..Len(LowerChars) : LowerChars[i] = c

\* str.lower() on one character
ToLower(c) ==
    IF IsUpper(c) THEN LowerChars[CHOOSE i \in 1..Len(UpperChars) : UpperChars[i] = c]
    ELSE c

\* str.lower()
Lower(str) == [i \in 1..Len(str) |-> ToLower(str[i])]

\* the length of the longest run of lower-case letters of str from pos on
RECURSIVE LowerRun(_, _)
LowerRun(str, pos) ==
    IF pos <= Len(str) /\ IsLower(str[pos]) THEN 1 + LowerRun(str, pos + 1) ELSE 0

\* the length of the longest run of capitals of str from pos on
RECURSIVE UpperRun(_, _)
UpperRun(str, pos) ==
    IF pos <= Len(str) /\ IsUpper(str[pos]) THEN 1 + UpperRun(str, pos + 1) ELSE 0

\* [A-Z]?[a-z]+ at pos: the length matched, 0 for no match
CapitalisedWord(str, pos) ==
    IF IsUpper(str[pos]) /\ LowerRun(str, pos + 1) > 0 THEN 1 + LowerRun(str, pos + 1)
    ELSE LowerRun(str, pos)

\* [A-Z]+(?=[A-Z]|$) at pos: the whole run of capitals when it ends the
\* string, else the run without its last capital
Capitals(str, pos) ==
    LET u == UpperRun(str, pos)
    IN IF u = 0 THEN 0
       ELSE IF pos + u > Len(str) THEN u
       ELSE u - 1

\* the alternation: the first alternative that matches wins
MatchAt(str, pos) ==
    IF CapitalisedWord(str, pos) > 0 THEN CapitalisedWord(str, pos) ELSE Capitals(str, pos)

\* re.findall: the matches from left to right, none overlapping
RECURSIVE FindAll(_, _)
FindAll(str, pos) ==
    IF pos > Len(str) THEN <<>>
    ELSE IF MatchAt(str, pos) > 0
         THEN <<SubSeq(str, pos, pos + MatchAt(str, pos) - 1)>>
              \o FindAll(str, pos + MatchAt(str, pos))
         ELSE FindAll(str, pos + 1)

\* split_camel_case(name)
SplitCamelCase(name) ==
    LET found == FindAll(name, 1) IN [i \in 1..Len(found) |-> Lower(found[i])]

\* token in name
Contains(name, token) ==
    \E i \in 0..(Len(name) - Len(token)) : SubSeq(name, i + 1, i + Len(token)) = token

\* lines 175-179 without the break: one append for each token found
AppendPerToken(m, tc, tokens) ==
    LET n == Cardinality({t \in tokens : Contains(Lower(tc.name), t)})
    IN m \o [i \in 1..n |-> tc]

\* lines 173-179: the record is appended at the first token found in its
\* lower-cased name, whatever the order in which the set yields its tokens
AppendIfMatched(m, tc, tokens) ==
    IF \E t \in tokens : Contains(Lower(tc.name), t) THEN Append(m, tc) ELSE m

MethodNamePool ==
    {<<"r", "e", "m", "o", "v", "e">>,
     <<"d", "e", "l", "e", "t", "e", "A", "l", "l">>,
     <<"g", "e", "t", "U", "R", "L">>,
     <<"t", "o", "X", "M", "L", "2">>,
     <<"$">>}

TestNamePool ==
    {<<"t", "e", "s", "t", "D", "e", "l", "e", "t", "e", "A", "l", "l", "I", "t", "e", "m", "s">>,
     <<"t", "e", "s", "t", "R", "e", "n", "d", "e", "r", "U", "I">>,
     <<"R", "e", "m", "o", "v", "e", "_", "A", "l", "l">>,
     <<"x", "m", "l", "E", "x", "p", "o", "r", "t">>,
     <<"T", "E", "S", "T", "_", "G", "E", "T", "_", "U", "R", "L">>,
     <<>>}

\* json.load: records with an id, a name and a folder
Catalogs ==
    UNION {{[i \in 1..k |-> [id |-> i, name |-> names[i], folder |-> "core"]] :
              names \in [1..k -> TestNamePool]} : k \in 0..MaxCatalog}

InitTests ==
    /\ tmethods \in {ms \in SUBSET MethodNamePool : Cardinality(ms) <= MaxTestMethods}
    /\ testcases \in Catalogs
    /\ norm_method_tokens = {}
    /\ matched = <<>>
    /\ tidx = 0
    /\ tpc = "tokenize"
    /\ IdleDep
    /\ IdleGraph
    /\ IdleChanged

\* lines 165-168: the tokens of every method name
Tokenize ==
    /\ tpc = "tokenize"
    /\ norm_method_tokens' = UNION {Range(SplitCamelCase(m)) : m \in tmethods}
    /\ tpc' = "match"
    /\ UNCHANGED <<tmethods, testcases, matched, tidx, depVars, graphVars, chgVars>>

\* lines 172-181: the next record of the catalog
MatchNext ==
    /\ tpc = "match"
    /\ tidx < Len(testcases)
    /\ matched' = AppendIfMatched(matched, testcases[tidx + 1], norm_method_tokens)
    /\ tidx' = tidx + 1
    /\ UNCHANGED <<tmethods, testcases, norm_method_tokens, tpc, depVars, graphVars, chgVars>>

\* lines 172, 182: the catalog is exhausted, matched is returned
TestsReturn ==
    /\ tpc = "match"
    /\ tidx = Len(testcases)
    /\ tpc' = "done"
    /\ UNCHANGED <<tmethods, testcases, norm_method_tokens, matched, tidx,
                   depVars, graphVars, chgVars>>

NextTests == Tokenize \/ MatchNext \/ TestsReturn

SpecTests == InitTests /\ [][NextTests]_vars

(***************************************************************************)
(* Properties of find_testcases                                            *)
(***************************************************************************)
\* the name of the record holds a token of one of the method names
NameHoldsToken(tc) ==
    \E m \in tmethods : \E i \in 1..Len(SplitCamelCase(m)) :
        Contains(Lower(tc.name), SplitCamelCase(m)[i])

\* C7: the records returned are those of the catalog whose lower-cased name
\* holds a token of a method name, each once, in the order of the catalog
MatchedIsFilter == tpc = "done" => matched = SelectSeq(testcases, NameHoldsToken)

MatchedIsFilterWitness ==
    /\ tpc = "done"
    /\ Len(testcases) = 2
    /\ Len(matched) = 1
    /\ Cardinality({t \in norm_method_tokens : Contains(Lower(matched[1].name), t)}) >= 2
    /\ \E t \in norm_method_tokens : ~Contains(matched[1].name, t)

====
